---- MODULE Spec2Model ----
(***************************************************************************)
(* A state-machine model of src/python/benchmark.py: the users table and   *)
(* its connection (sqlite3 in its default, legacy transaction mode), the   *)
(* six timed handlers on it, the custom-query handler on the read-only     *)
(* catalog, and main.                                                      *)
(*                                                                         *)
(* Two callers drive the handlers.  Under SpecMain the caller is main()    *)
(* with the arguments main() passes.  Under Spec the caller is a driver    *)
(* that calls one or two handlers on a small table with small counts, the  *)
(* way a unit test would, and keeps a snapshot of the table after each     *)
(* call.  The handlers' actions are the same under both.                   *)
(***************************************************************************)
EXTENDS Integers, Sequences, FiniteSets, TLC

VARIABLES
    caller,     \* "main" or "unit": who calls the handlers
    argv,       \* main: TRUE iff "--custom-queries" is in sys.argv
    script,     \* the calls the caller makes, in order
    stepNo,     \* index in script of the call being made (or made next)
    pc,         \* the caller's position
    exc,        \* the exception in flight: "none" or "error"
    frame,      \* the running handler's position: [op, count, i, at]
    dbExists,   \* whether the file benchmark.db exists
    hasTable,   \* whether benchmark.db holds the users table
    disk,       \* the committed rows of users, in runs ordered by id
    conn,       \* main connection: "none", "open" or "closed"
    inTxn,      \* whether the main connection is inside a transaction
    table,      \* the rows of users as the main connection sees them, in runs
    catalog,    \* the external dataset: [exists, videos]
    roConn,     \* the read-only connection of benchmark_custom_query
    cq,         \* benchmark_custom_query's locals
    qlog,       \* unit driver only: the statements the current iteration of
                \* benchmark_custom_query has executed, and its locals before
    out,        \* what has been printed to standard output
    steps,      \* history: the operations started, in order
    snaps       \* unit driver only: the table after each completed call

vars == <<caller, argv, script, stepNo, pc, exc, frame, dbExists, hasTable, disk,
          conn, inTxn, table, catalog, roConn, cq, qlog, out, steps, snaps>>

dbVars == <<dbExists, hasTable, disk, conn, inTxn, table>>
cqVars == <<catalog, roConn, cq, qlog>>
callerVars == <<caller, argv, script, stepNo, pc, exc>>

(***************************************************************************)
(* Bounds of the model.                                                    *)
(***************************************************************************)
MaxCount == 6       \* unit driver: counts passed to a handler are 0..MaxCount
MaxId == 3          \* unit driver: ids of the rows already in the table
MaxIter == 2        \* unit driver: iterations passed to benchmark_custom_query
FaultWindow == 2    \* an engine error is injected at the first and the last
                    \* FaultWindow iterations of a loop (and at every statement
                    \* outside a loop); the iterations of an insert or update
                    \* loop between the two windows are taken in one step
BigCatalog == 150   \* number of videos of the large catalog fixture

(***************************************************************************)
(* Program constants.                                                      *)
(***************************************************************************)
BatchInsertCount == 10000
SingleInsertCount == 1000
BatchUpdateCount == 5000
BatchDeleteCount == 5000
CustomIterations == 10
IndexLimit == 100
MaxPage == 49
OffsetStride == 100
SimilarLimit == 6
GroupLimit == 10
MinYear == 2020
MaxYear == 2025

Min(a, b) == IF a < b THEN a ELSE b
Max(a, b) == IF a > b THEN a ELSE b

(***************************************************************************)
(* The rows the handlers generate: the values of iteration i of a loop.    *)
(***************************************************************************)
\* A row name numbered from one instead of from zero.
BatchNameOneBased(i) == "User" \o ToString(i + 1)

BatchName(i) == "User" \o ToString(i)
BatchEmail(i) == "user" \o ToString(i) \o "@example.com"
BatchAge(i) == 20 + (i % 50)
SingleName(i) == "SingleUser" \o ToString(i)
SingleEmail(i) == "single" \o ToString(i) \o "@example.com"
SingleAge(i) == 25 + (i % 40)
UpdateAgeOf(i) == 30 + (i % 30)

(***************************************************************************)
(* The engine on the users table.  The table is kept in runs, ordered by   *)
(* id as the table's b-tree is.  A run is n rows of consecutive ids, from  *)
(* id on, that one loop ("batch": benchmark_batch_insert, "single":        *)
(* benchmark_single_inserts) inserted at its consecutive iterations i,     *)
(* i+1, ...; or one row of an older file ("prior"), of age age0.  upd      *)
(* tells that benchmark_batch_update has set the ages of its rows.         *)
(***************************************************************************)
Run(id, n, by, i, upd, age0) ==
    [id |-> id, n |-> n, by |-> by, i |-> i, upd |-> upd, age0 |-> age0]

\* The k-th row of a run, k counted from 0.
RowOf(run, k) ==
    [id |-> run.id + k,
     name |-> CASE run.by = "batch" -> BatchName(run.i + k)
                [] run.by = "single" -> SingleName(run.i + k)
                [] OTHER -> "Prior" \o ToString(run.i + k),
     email |-> CASE run.by = "batch" -> BatchEmail(run.i + k)
                 [] run.by = "single" -> SingleEmail(run.i + k)
                 [] OTHER -> "prior" \o ToString(run.i + k) \o "@example.com",
     age |-> IF run.upd THEN UpdateAgeOf(run.id + k - 1)
             ELSE CASE run.by = "batch" -> BatchAge(run.i + k)
                    [] run.by = "single" -> SingleAge(run.i + k)
                    [] OTHER -> run.age0]

RECURSIVE Users(_)
\* SELECT * FROM users ORDER BY id: the rows of the table, one by one.
Users(rows) ==
    IF rows = <<>> THEN <<>>
    ELSE [k \in 1..rows[1].n |-> RowOf(rows[1], k - 1)] \o Users(Tail(rows))

RECURSIVE RowCount(_)
\* SELECT COUNT(*) FROM users
RowCount(rows) ==
    IF rows = <<>> THEN 0 ELSE rows[1].n + RowCount(Tail(rows))

LastRowid(rows) ==
    IF rows = <<>> THEN 0 ELSE rows[Len(rows)].id + rows[Len(rows)].n - 1

\* INSERT INTO users (name, email, age) VALUES (?, ?, ?), executed at the
\* iterations i .. i+n-1 of the loop of handler by: id INTEGER PRIMARY KEY is
\* assigned the largest id in the table plus one.
InsertRows(rows, by, i, n) ==
    IF n = 0 THEN rows
    ELSE Append(rows, Run(LastRowid(rows) + 1, n, by, i, FALSE, 0))

\* The rows of run whose ids are in from..to.
Piece(run, from, to) ==
    IF from > to THEN <<>>
    ELSE << [run EXCEPT !.id = from, !.n = to - from + 1,
                        !.i = @ + (from - run.id)] >>

RECURSIVE Without(_, _)
\* The table less its rows of id at most last.
Without(rows, last) ==
    IF rows = <<>> THEN <<>>
    ELSE Piece(rows[1], Max(rows[1].id, last + 1), rows[1].id + rows[1].n - 1)
         \o Without(Tail(rows), last)

\* DELETE FROM users WHERE id < ?
DeleteBelow(rows, count) == Without(rows, count - 1)

\* DELETE FROM users WHERE id <= ?
DeleteUpTo(rows, count) == Without(rows, count)

RECURSIVE SetAges(_, _, _)
\* The table with the ages of its rows of ids lo..hi set by the update.
SetAges(rows, lo, hi) ==
    IF rows = <<>> THEN <<>>
    ELSE LET run == rows[1]
             last == run.id + run.n - 1
             a == Max(lo, run.id)
             b == Min(hi, last)
         IN  (IF a > b THEN <<run>>
              ELSE Piece(run, run.id, a - 1)
                   \o << [Piece(run, a, b)[1] EXCEPT !.upd = TRUE] >>
                   \o Piece(run, b + 1, last))
             \o SetAges(Tail(rows), lo, hi)

\* ... WHERE id = j: the row of the iteration before.
UpdateRunOfIdBefore(rows, i, n) == SetAges(rows, i, i + n - 1)

\* Iterations i .. i+n-1 of benchmark_batch_update's loop, each the statement
\* UPDATE users SET age = 30 + (j % 30) WHERE id = j + 1.
UpdateRun(rows, i, n) == SetAges(rows, i + 1, i + n)

\* SELECT * FROM users WHERE age > ?
SelectOlder(rows, age) == SelectSeq(Users(rows), LAMBDA r : r.age > age)

\* SELECT age, COUNT(*), AVG(age) ... WHERE age BETWEEN ? AND ? GROUP BY age
\* ORDER BY count DESC LIMIT 10: the number of rows returned.
AgeGroups(rows, lo, hi) ==
    LET users == Users(rows)
    IN  { users[p].age : p \in 1..Len(users) } \cap (lo..hi)
ComplexSelectCount(rows, lo, hi) ==
    Min(GroupLimit, Cardinality(AgeGroups(rows, lo, hi)))

(***************************************************************************)
(* The engine on the catalog.  videos is ordered by release date, latest   *)
(* first; every video of a fixture is released on 1 January of its year,   *)
(* so that release_date <= random_date is decided by random_year alone.    *)
(* A video is [dvd_id, year, rel], rel the number of rows its two outer    *)
(* joins produce.                                                          *)
(***************************************************************************)
\* index_query: ... WHERE release_date <= ? ORDER BY release_date DESC
\* LIMIT ? OFFSET ?
IndexQuery(videos, year, limit, offset) ==
    LET m == SelectSeq(videos, LAMBDA v : v.year <= year)
    IN  SubSeq(m, offset + 1, Min(offset + limit, Len(m)))

\* detail_query: ... WHERE dvd_id = ?
DetailQuery(videos, dvd_id) == SelectSeq(videos, LAMBDA v : v.dvd_id = dvd_id)

RECURSIVE SumRel(_)
SumRel(vs) == IF vs = <<>> THEN 0 ELSE vs[1].rel + SumRel(Tail(vs))

\* relationships_query: the number of rows returned.
RelationshipsCount(videos, dvd_id) == SumRel(DetailQuery(videos, dvd_id))

RECURSIVE SameYearCount(_, _)
SameYearCount(videos, anon) ==
    IF anon = <<>> THEN 0
    ELSE Len(SelectSeq(videos, LAMBDA v : v.year = anon[1].year))
         + SameYearCount(videos, Tail(anon))

\* similar_query: ... ORDER BY random() LIMIT 6 OFFSET 0: the number of rows.
SimilarCount(videos, dvd_id) ==
    Min(SimilarLimit, SameYearCount(videos, DetailQuery(videos, dvd_id)))

(***************************************************************************)
(* Frames.                                                                 *)
(***************************************************************************)
NoFrame == [op |-> "none", count |-> 0, i |-> 0, at |-> "none"]

\* Where a handler starts.
Entry(call) ==
    [op |-> call.op, count |-> call.count, i |-> 0,
     at |-> CASE call.op \in {"batch_insert", "batch_update", "batch_delete"}
                    -> "begin"
              [] call.op = "single_inserts"
                    -> IF call.count = 0 THEN "ret" ELSE "exec"
              [] call.op \in {"simple_select", "complex_select"} -> "select"
              [] call.op = "custom_query" -> "connect"]

NoCq == [total_rows1 |-> 0, total_rows2 |-> 0, total_rows3 |-> 0,
         total_rows4 |-> 0, rows1 |-> <<>>, random_dvd_id |-> 0]

Totals(locals) == <<locals.total_rows1, locals.total_rows2,
                    locals.total_rows3, locals.total_rows4>>

NoLog == [before |-> Totals(NoCq), stmts |-> <<>>]

(***************************************************************************)
(* Fixtures of the unit driver.                                            *)
(***************************************************************************)
PriorAges == {20, 45}

RECURSIVE SeqOf(_)
\* The elements of a finite set of integers, in increasing order.
SeqOf(S) ==
    IF S = {} THEN <<>>
    ELSE LET m == CHOOSE x \in S : \A y \in S : y <= x
         IN  Append(SeqOf(S \ {m}), m)

PriorRow(id, age) == Run(id, 1, "prior", id, FALSE, age)

\* Every table whose ids are among 1..MaxId, ordered by id.
PriorTables ==
    UNION { { [k \in 1..Cardinality(S) |-> PriorRow(SeqOf(S)[k], a[SeqOf(S)[k]])]
              : a \in [S -> PriorAges] }
            : S \in SUBSET (1..MaxId) }

Call(op, count) == [op |-> op, count |-> count]

TableScenarios ==
    { <<Call(o, n)>> : o \in {"batch_insert", "single_inserts", "batch_update",
                               "batch_delete"}, n \in 0..MaxCount }
    \cup { <<Call("simple_select", 0)>>, <<Call("complex_select", 0)>> }
    \cup { <<Call("batch_insert", n), Call("single_inserts", m)>>
           : n \in 0..MaxCount, m \in 0..MaxCount }
    \cup { <<Call("batch_update", n), Call("batch_update", n)>>
           : n \in 0..MaxCount }

CustomScenarios == { <<Call("custom_query", n)>> : n \in 0..MaxIter }

Video(dvd_id, year, rel) == [dvd_id |-> dvd_id, year |-> year, rel |-> rel]

SmallVideos == << Video(2, 2024, 1), Video(1, 2019, 1) >>
MixedVideos == << Video(4, 2031, 1), Video(3, 2024, 2), Video(3, 2022, 1),
                  Video(1, 2019, 3) >>
BigVideos == [k \in 1..BigCatalog |-> Video(BigCatalog + 1 - k, 2020, 1)]

SmallCatalog == [exists |-> TRUE, videos |-> SmallVideos]
MainCatalog == [exists |-> TRUE, videos |-> << Video(1, 2019, 1) >>]
Catalogs ==
    { SmallCatalog,
      [exists |-> FALSE, videos |-> <<>>],
      [exists |-> TRUE, videos |-> <<>>],
      [exists |-> TRUE, videos |-> MixedVideos],
      [exists |-> TRUE, videos |-> BigVideos] }

(***************************************************************************)
(* Statements that fail by themselves, and where an engine error can be    *)
(* injected.                                                               *)
(***************************************************************************)
UsersOps == {"batch_insert", "single_inserts", "simple_select",
             "complex_select", "batch_update", "batch_delete"}

StmtFails ==
    \/ /\ frame.op \in UsersOps
       /\ frame.at # "ret"
       /\ \/ conn # "open"
          \/ frame.at = "begin" /\ inTxn
          \/ frame.at \in {"loop", "exec", "delete", "select"} /\ ~hasTable
    \/ /\ frame.op = "custom_query"
       /\ \/ frame.at = "connect" /\ ~catalog.exists
          \/ frame.at = "report" /\ frame.count = 0

InWindow ==
    \/ frame.i < FaultWindow
    \/ frame.i >= frame.count - FaultWindow

Faultable ==
    \/ pc = "remove" /\ dbExists
    \/ pc \in {"connect", "setup"}
    \/ /\ pc = "wait"
       /\ frame.at \in {"begin", "loop", "exec", "commit", "delete", "select",
                        "connect", "index", "detail", "rel", "similar"}
       /\ InWindow

\* The number of iterations an insert or update loop makes in one step.
Stride ==
    IF InWindow THEN 1 ELSE frame.count - FaultWindow - frame.i

InHandler(op, at) ==
    /\ pc = "wait"
    /\ frame.op = op
    /\ frame.at = at
    /\ ~StmtFails

Say(line) == out' = Append(out, line)

(***************************************************************************)
(* benchmark_batch_insert                                                  *)
(***************************************************************************)
BatchInsertBegin ==
    /\ InHandler("batch_insert", "begin")
    /\ inTxn' = TRUE
    /\ frame' = [frame EXCEPT !.at = "loop"]
    /\ UNCHANGED <<callerVars, dbExists, hasTable, disk, conn, table, cqVars,
                   out, steps, snaps>>

\* The INSERTs on a connection in autocommit mode: each is durable at once.
BatchInsertRowAutocommit ==
    /\ InHandler("batch_insert", "loop")
    /\ frame.i < frame.count
    /\ table' = InsertRows(table, "batch", frame.i, Stride)
    /\ disk' = table'
    /\ frame' = [frame EXCEPT !.i = @ + Stride]
    /\ UNCHANGED <<callerVars, dbExists, hasTable, conn, inTxn, cqVars,
                   out, steps, snaps>>

BatchInsertRow ==
    /\ InHandler("batch_insert", "loop")
    /\ frame.i < frame.count
    /\ table' = InsertRows(table, "batch", frame.i, Stride)
    /\ frame' = [frame EXCEPT !.i = @ + Stride]
    /\ UNCHANGED <<callerVars, dbExists, hasTable, disk, conn, inTxn, cqVars,
                   out, steps, snaps>>

BatchInsertCommit ==
    /\ InHandler("batch_insert", "loop")
    /\ frame.i = frame.count
    /\ disk' = table
    /\ inTxn' = FALSE
    /\ frame' = [frame EXCEPT !.at = "ret"]
    /\ UNCHANGED <<callerVars, dbExists, hasTable, conn, table, cqVars, out,
                   steps, snaps>>

(***************************************************************************)
(* benchmark_single_inserts                                                *)
(***************************************************************************)
\* In a window: the INSERT of iteration frame.i, which opens a transaction.
\* Between the windows: Stride whole iterations, each an INSERT and its commit.
SingleInsertRow ==
    /\ InHandler("single_inserts", "exec")
    /\ table' = InsertRows(table, "single", frame.i, Stride)
    /\ IF InWindow
       THEN /\ inTxn' = TRUE
            /\ frame' = [frame EXCEPT !.at = "commit"]
            /\ disk' = disk
       ELSE /\ inTxn' = FALSE
            /\ frame' = [frame EXCEPT !.i = @ + Stride]
            /\ disk' = table'
    /\ UNCHANGED <<callerVars, dbExists, hasTable, conn, cqVars, out, steps,
                   snaps>>

\* conn.commit() moved after the loop: only the last iteration commits.
SingleInsertCommitAtEnd ==
    /\ InHandler("single_inserts", "commit")
    /\ disk' = IF frame.i + 1 = frame.count THEN table ELSE disk
    /\ inTxn' = (frame.i + 1 # frame.count)
    /\ frame' = [frame EXCEPT !.i = @ + 1,
                              !.at = IF frame.i + 1 = frame.count
                                     THEN "ret" ELSE "exec"]
    /\ UNCHANGED <<callerVars, dbExists, hasTable, conn, table, cqVars, out,
                   steps, snaps>>

SingleInsertCommit ==
    /\ InHandler("single_inserts", "commit")
    /\ disk' = table
    /\ inTxn' = FALSE
    /\ frame' = [frame EXCEPT !.i = @ + 1,
                              !.at = IF frame.i + 1 = frame.count
                                     THEN "ret" ELSE "exec"]
    /\ UNCHANGED <<callerVars, dbExists, hasTable, conn, table, cqVars, out,
                   steps, snaps>>

(***************************************************************************)
(* benchmark_simple_select, benchmark_complex_select                       *)
(***************************************************************************)
SimpleSelect ==
    /\ InHandler("simple_select", "select")
    /\ Say(<<"found", Len(SelectOlder(table, 30))>>)
    /\ frame' = [frame EXCEPT !.at = "ret"]
    /\ UNCHANGED <<callerVars, dbVars, cqVars, steps, snaps>>

ComplexSelect ==
    /\ InHandler("complex_select", "select")
    /\ Say(<<"groups", ComplexSelectCount(table, 25, 50)>>)
    /\ frame' = [frame EXCEPT !.at = "ret"]
    /\ UNCHANGED <<callerVars, dbVars, cqVars, steps, snaps>>

(***************************************************************************)
(* benchmark_batch_update                                                  *)
(***************************************************************************)
BatchUpdateBegin ==
    /\ InHandler("batch_update", "begin")
    /\ inTxn' = TRUE
    /\ frame' = [frame EXCEPT !.at = "loop"]
    /\ UNCHANGED <<callerVars, dbExists, hasTable, disk, conn, table, cqVars,
                   out, steps, snaps>>

BatchUpdateRow ==
    /\ InHandler("batch_update", "loop")
    /\ frame.i < frame.count
    /\ table' = UpdateRun(table, frame.i, Stride)
    /\ frame' = [frame EXCEPT !.i = @ + Stride]
    /\ UNCHANGED <<callerVars, dbExists, hasTable, disk, conn, inTxn, cqVars,
                   out, steps, snaps>>

BatchUpdateCommit ==
    /\ InHandler("batch_update", "loop")
    /\ frame.i = frame.count
    /\ disk' = table
    /\ inTxn' = FALSE
    /\ frame' = [frame EXCEPT !.at = "ret"]
    /\ UNCHANGED <<callerVars, dbExists, hasTable, conn, table, cqVars, out,
                   steps, snaps>>

(***************************************************************************)
(* benchmark_batch_delete                                                  *)
(***************************************************************************)
BatchDeleteBegin ==
    /\ InHandler("batch_delete", "begin")
    /\ inTxn' = TRUE
    /\ frame' = [frame EXCEPT !.at = "delete"]
    /\ UNCHANGED <<callerVars, dbExists, hasTable, disk, conn, table, cqVars,
                   out, steps, snaps>>

BatchDeleteExec ==
    /\ InHandler("batch_delete", "delete")
    /\ table' = DeleteUpTo(table, frame.count)
    /\ frame' = [frame EXCEPT !.at = "commit"]
    /\ UNCHANGED <<callerVars, dbExists, hasTable, disk, conn, inTxn, cqVars,
                   out, steps, snaps>>

BatchDeleteCommit ==
    /\ InHandler("batch_delete", "commit")
    /\ disk' = table
    /\ inTxn' = FALSE
    /\ frame' = [frame EXCEPT !.at = "ret"]
    /\ UNCHANGED <<callerVars, dbExists, hasTable, conn, table, cqVars, out,
                   steps, snaps>>

(***************************************************************************)
(* benchmark_custom_query                                                  *)
(***************************************************************************)
Logged(entry) == IF caller = "unit" THEN <<entry>> ELSE <<>>

\* A statement as the driver logs it: the query, and its LIMIT, OFFSET and
\* dvd_id parameters (0 where it has none).
Stmt(q, limit, offset, dvd_id) ==
    [q |-> q, limit |-> limit, offset |-> offset, dvd_id |-> dvd_id]

\* The pages numbered from one: random.randint(1, 50).
IndexDrawsFromPageOne ==
    { [rows |-> IndexQuery(catalog.videos, random_year, IndexLimit,
                           page_number * OffsetStride),
       log |-> Logged(Stmt("index", IndexLimit,
                           page_number * OffsetStride, 0))]
      : random_year \in MinYear..MaxYear, page_number \in 1..(MaxPage + 1) }

\* What one execution of index_query can return, over the random date and
\* the random page, with the statement as the driver logs it.
IndexDraws ==
    { [rows |-> IndexQuery(catalog.videos, random_year, IndexLimit,
                           page_number * OffsetStride),
       log |-> Logged(Stmt("index", IndexLimit,
                           page_number * OffsetStride, 0))]
      : random_year \in MinYear..MaxYear, page_number \in 0..MaxPage }

\* The end of the loop's body: on to the next iteration.
NextIteration == [frame EXCEPT !.i = @ + 1, !.at = "for"]

CQConnect ==
    /\ InHandler("custom_query", "connect")
    /\ roConn' = "open"
    /\ cq' = NoCq
    /\ qlog' = NoLog
    /\ frame' = [frame EXCEPT !.at = "for"]
    /\ UNCHANGED <<callerVars, dbVars, catalog, out, steps, snaps>>

\* for _ in range(iterations): the driver's log of the iteration starts afresh.
CQFor ==
    /\ InHandler("custom_query", "for")
    /\ qlog' = IF caller = "unit" THEN [before |-> Totals(cq), stmts |-> <<>>]
               ELSE NoLog
    /\ frame' = [frame EXCEPT !.at = IF frame.i < frame.count THEN "index"
                                     ELSE "close"]
    /\ UNCHANGED <<callerVars, dbVars, catalog, roConn, cq, out, steps, snaps>>

CQIndex ==
    /\ InHandler("custom_query", "index")
    /\ \E draw \in IndexDraws :
          /\ cq' = [cq EXCEPT !.rows1 = draw.rows,
                              !.total_rows1 = @ + Len(draw.rows)]
          /\ qlog' = [qlog EXCEPT !.stmts = @ \o draw.log]
          /\ frame' = IF Len(draw.rows) > 0
                      THEN [frame EXCEPT !.at = "detail"]
                      ELSE NextIteration
    /\ UNCHANGED <<callerVars, dbVars, catalog, roConn, out, steps, snaps>>

\* random_dvd_id chosen once, in the first iteration that lists a row, and
\* kept for the later ones.
CQDetailKeepsKey ==
    /\ InHandler("custom_query", "detail")
    /\ \E k \in 1..Len(cq.rows1) :
          LET random_dvd_id == IF cq.random_dvd_id # 0 THEN cq.random_dvd_id
                               ELSE cq.rows1[k].dvd_id
          IN  /\ cq' = [cq EXCEPT
                          !.random_dvd_id = random_dvd_id,
                          !.total_rows2 =
                              @ + Len(DetailQuery(catalog.videos, random_dvd_id))]
              /\ qlog' = [qlog EXCEPT !.stmts =
                             @ \o Logged(Stmt("detail", 0, 0, random_dvd_id))]
    /\ frame' = [frame EXCEPT !.at = "rel"]
    /\ UNCHANGED <<callerVars, dbVars, catalog, roConn, out, steps, snaps>>

CQDetail ==
    /\ InHandler("custom_query", "detail")
    /\ \E k \in 1..Len(cq.rows1) :
          LET random_dvd_id == cq.rows1[k].dvd_id
          IN  /\ cq' = [cq EXCEPT
                          !.random_dvd_id = random_dvd_id,
                          !.total_rows2 =
                              @ + Len(DetailQuery(catalog.videos, random_dvd_id))]
              /\ qlog' = [qlog EXCEPT !.stmts =
                             @ \o Logged(Stmt("detail", 0, 0, random_dvd_id))]
    /\ frame' = [frame EXCEPT !.at = "rel"]
    /\ UNCHANGED <<callerVars, dbVars, catalog, roConn, out, steps, snaps>>

CQRelationships ==
    /\ InHandler("custom_query", "rel")
    /\ cq' = [cq EXCEPT !.total_rows3 =
                 @ + RelationshipsCount(catalog.videos, cq.random_dvd_id)]
    /\ qlog' = [qlog EXCEPT !.stmts =
                   @ \o Logged(Stmt("relationships", 0, 0, cq.random_dvd_id))]
    /\ frame' = [frame EXCEPT !.at = "similar"]
    /\ UNCHANGED <<callerVars, dbVars, catalog, roConn, out, steps, snaps>>

CQSimilar ==
    /\ InHandler("custom_query", "similar")
    /\ cq' = [cq EXCEPT !.total_rows4 =
                 @ + SimilarCount(catalog.videos, cq.random_dvd_id)]
    /\ qlog' = [qlog EXCEPT !.stmts =
                   @ \o Logged(Stmt("similar", 0, 0, cq.random_dvd_id))]
    /\ frame' = NextIteration
    /\ UNCHANGED <<callerVars, dbVars, catalog, roConn, out, steps, snaps>>

CQClose ==
    /\ InHandler("custom_query", "close")
    /\ roConn' = "closed"
    /\ frame' = [frame EXCEPT !.at = "report"]
    /\ UNCHANGED <<callerVars, dbVars, catalog, cq, qlog, out, steps, snaps>>

CQReport ==
    /\ InHandler("custom_query", "report")
    /\ out' = out \o << <<"avg", 1, cq.total_rows1 \div frame.count>>,
                        <<"avg", 2, cq.total_rows2 \div frame.count>>,
                        <<"avg", 3, cq.total_rows3 \div frame.count>>,
                        <<"avg", 4, cq.total_rows4 \div frame.count>> >>
    /\ frame' = [frame EXCEPT !.at = "ret"]
    /\ UNCHANGED <<callerVars, dbVars, cqVars, steps, snaps>>

(***************************************************************************)
(* An exception: a statement that fails by itself, or an error of the      *)
(* engine or of the file system.  No caller catches it: it leaves the      *)
(* handler and the caller where they are and ends the run.                 *)
(***************************************************************************)
\* The exception caught where it is raised and passed over: the handler
\* returns, the caller goes on.
RaiseSwallowed ==
    /\ pc \notin {"done", "failed"}
    /\ Faultable \/ (pc = "wait" /\ StmtFails)
    /\ exc' = "error"
    /\ IF pc = "wait"
       THEN /\ frame' = [frame EXCEPT !.at = "ret"]
            /\ pc' = pc
       ELSE /\ frame' = frame
            /\ pc' = "call"
    /\ UNCHANGED <<caller, argv, script, stepNo, dbVars, cqVars, out,
                   steps, snaps>>

Raise ==
    /\ pc \notin {"done", "failed"}
    /\ Faultable \/ (pc = "wait" /\ StmtFails)
    /\ exc' = "error"
    /\ pc' = "failed"
    /\ UNCHANGED <<caller, argv, script, stepNo, frame, dbVars, cqVars, out,
                   steps, snaps>>

(***************************************************************************)
(* The unit driver.                                                        *)
(***************************************************************************)
UnitCall ==
    /\ caller = "unit"
    /\ pc = "call"
    /\ frame' = Entry(script[stepNo])
    /\ steps' = Append(steps, script[stepNo].op)
    /\ pc' = "wait"
    /\ UNCHANGED <<exc, caller, argv, script, stepNo, dbVars, cqVars, out, snaps>>

UnitReturn ==
    /\ caller = "unit"
    /\ pc = "wait"
    /\ frame.at = "ret"
    /\ snaps' = Append(snaps, table)
    /\ frame' = NoFrame
    /\ stepNo' = stepNo + 1
    /\ pc' = IF stepNo = Len(script) THEN "done" ELSE "call"
    /\ UNCHANGED <<exc, caller, argv, script, dbVars, cqVars, out, steps>>

(***************************************************************************)
(* main                                                                    *)
(***************************************************************************)
MainScript(custom_queries_only) ==
    IF custom_queries_only
    THEN << Call("custom_query", CustomIterations) >>
    ELSE << Call("batch_insert", BatchInsertCount),
            Call("single_inserts", SingleInsertCount),
            Call("simple_select", 0),
            Call("complex_select", 0),
            Call("batch_update", BatchUpdateCount),
            Call("batch_delete", BatchDeleteCount),
            Call("custom_query", CustomIterations) >>

MainStart ==
    /\ caller = "main"
    /\ pc = "start"
    /\ Say(<<"header", argv>>)
    /\ pc' = IF argv THEN "call" ELSE "remove"
    /\ UNCHANGED <<exc, caller, argv, script, stepNo, frame, dbVars, cqVars, steps,
                   snaps>>

\* The old benchmark.db left in place.
MainRemoveKeepsFile ==
    /\ pc = "remove"
    /\ steps' = Append(steps, "remove")
    /\ pc' = "connect"
    /\ UNCHANGED <<exc, caller, argv, script, stepNo, frame, dbVars, cqVars, out,
                   snaps>>

MainRemove ==
    /\ pc = "remove"
    /\ dbExists' = FALSE
    /\ hasTable' = FALSE
    /\ disk' = <<>>
    /\ steps' = Append(steps, "remove")
    /\ pc' = "connect"
    /\ UNCHANGED <<exc, caller, argv, script, stepNo, frame, conn, inTxn, table,
                   cqVars, out, snaps>>

MainConnect ==
    /\ pc = "connect"
    /\ conn' = "open"
    /\ dbExists' = TRUE
    /\ inTxn' = FALSE
    /\ table' = disk
    /\ steps' = Append(steps, "connect")
    /\ pc' = "setup"
    /\ UNCHANGED <<exc, caller, argv, script, stepNo, frame, hasTable, disk, cqVars,
                   out, snaps>>

\* setup_database: CREATE TABLE IF NOT EXISTS users, then commit.
SetupDatabase ==
    /\ pc = "setup"
    /\ hasTable' = TRUE
    /\ disk' = table
    /\ inTxn' = FALSE
    /\ steps' = Append(steps, "setup")
    /\ pc' = "call"
    /\ UNCHANGED <<exc, caller, argv, script, stepNo, frame, dbExists, conn, table,
                   cqVars, out, snaps>>

MainCall ==
    /\ caller = "main"
    /\ pc = "call"
    /\ Say(<<"label", script[stepNo].op>>)
    /\ frame' = Entry(script[stepNo])
    /\ steps' = Append(steps, script[stepNo].op)
    /\ pc' = "wait"
    /\ UNCHANGED <<exc, caller, argv, script, stepNo, dbVars, cqVars, snaps>>

MainReturn ==
    /\ caller = "main"
    /\ pc = "wait"
    /\ frame.at = "ret"
    /\ Say(<<"time", frame.op>>)
    /\ frame' = NoFrame
    /\ stepNo' = stepNo + 1
    /\ pc' = IF frame.op = "batch_delete" THEN "close"
             ELSE IF stepNo = Len(script) THEN "summary"
             ELSE "call"
    /\ UNCHANGED <<exc, caller, argv, script, dbVars, cqVars, steps, snaps>>

\* conn.close(): what the connection has not committed is lost.
MainClose ==
    /\ pc = "close"
    /\ conn' = "closed"
    /\ inTxn' = FALSE
    /\ table' = <<>>
    /\ steps' = Append(steps, "close")
    /\ pc' = "call"
    /\ UNCHANGED <<exc, caller, argv, script, stepNo, frame, dbExists, hasTable, disk,
                   cqVars, out, snaps>>

MainSummary ==
    /\ pc = "summary"
    /\ Say(<<"results", Len(script)>>)
    /\ pc' = "done"
    /\ UNCHANGED <<exc, caller, argv, script, stepNo, frame, dbVars, cqVars, steps,
                   snaps>>

(***************************************************************************)
(* Specifications.                                                         *)
(***************************************************************************)
PriorFileRows == << PriorRow(1, 20), PriorRow(7, 45) >>

InitCommon ==
    /\ stepNo = 1
    /\ exc = "none"
    /\ frame = NoFrame
    /\ inTxn = FALSE
    /\ roConn = "none"
    /\ cq = NoCq
    /\ qlog = NoLog
    /\ out = <<>>
    /\ steps = <<>>

\* The unit driver: an open connection on a committed table.
Init ==
    /\ caller = "unit"
    /\ argv = FALSE
    /\ pc = "call"
    /\ \/ /\ script \in TableScenarios
          /\ table \in PriorTables
          /\ catalog = SmallCatalog
       \/ /\ script \in CustomScenarios
          /\ table = <<>>
          /\ catalog \in Catalogs
    /\ dbExists = TRUE
    /\ hasTable = TRUE
    /\ disk = table
    /\ conn = "open"
    /\ snaps = <<table>>
    /\ InitCommon

\* main: with or without the flag, with or without an old benchmark.db.
InitMain ==
    /\ caller = "main"
    /\ argv \in BOOLEAN
    /\ script = MainScript(argv)
    /\ pc = "start"
    /\ dbExists \in BOOLEAN
    /\ hasTable = dbExists
    /\ disk = IF dbExists THEN PriorFileRows ELSE <<>>
    /\ conn = "none"
    /\ table = <<>>
    /\ catalog = MainCatalog
    /\ snaps = <<>>
    /\ InitCommon

Handlers ==
    \/ BatchInsertBegin \/ BatchInsertRow \/ BatchInsertCommit
    \/ SingleInsertRow \/ SingleInsertCommit
    \/ SimpleSelect \/ ComplexSelect
    \/ BatchUpdateBegin \/ BatchUpdateRow \/ BatchUpdateCommit
    \/ BatchDeleteBegin \/ BatchDeleteExec \/ BatchDeleteCommit
    \/ CQConnect \/ CQFor \/ CQIndex \/ CQDetail \/ CQRelationships \/ CQSimilar
    \/ CQClose \/ CQReport
    \/ Raise

Next == UnitCall \/ UnitReturn \/ Handlers

NextMain ==
    \/ MainStart \/ MainRemove \/ MainConnect \/ SetupDatabase
    \/ MainCall \/ MainReturn \/ MainClose \/ MainSummary
    \/ Handlers

Spec == Init /\ [][Next]_vars

SpecMain == InitMain /\ [][NextMain]_vars

(***************************************************************************)
(* The claims.  Under the unit driver, Pre is the table as it was when the *)
(* handler now running (or just returned) was called.                      *)
(***************************************************************************)
Pre == Users(snaps[Len(snaps)])

\* The rows of the table as the connection sees it, and as the file holds it.
Seen == Users(table)
Durable == Users(disk)

Returned(op) == caller = "unit" /\ pc = "wait" /\ frame.op = op /\ frame.at = "ret"

Rows(rows) == { rows[p] : p \in 1..Len(rows) }

\* C1: after benchmark_batch_insert(conn, N) on an empty users table, the
\* table holds exactly N rows, with ids 1..N in insertion order, and for each
\* i in 0..N-1 the row of id i+1 has name "User<i>", email
\* "user<i>@example.com" and age 20 + (i mod 50).
C1_BatchInsertRows ==
    (Returned("batch_insert") /\ Pre = <<>>) =>
        /\ Len(Seen) = frame.count
        /\ Durable = Seen
        /\ \A i \in 0..(frame.count - 1) :
              Seen[i + 1] = [id |-> i + 1,
                             name |-> "User" \o ToString(i),
                             email |-> "user" \o ToString(i) \o "@example.com",
                             age |-> 20 + (i % 50)]

C1_Witness ==
    /\ Returned("batch_insert")
    /\ Pre = <<>>
    /\ frame.count = MaxCount
    /\ Len(Seen) = MaxCount
    /\ Seen[MaxCount].name = "User" \o ToString(MaxCount - 1)

\* C2: benchmark_batch_insert is all-or-nothing: whatever statement the
\* engine fails at (BEGIN TRANSACTION, any INSERT, the commit), the durable
\* table holds either none of the call's rows or all count of them, never a
\* part; a failed call leaves none.
C2_BatchInsertAtomic ==
    (caller = "unit" /\ frame.op = "batch_insert") =>
        /\ \/ Durable = Pre
           \/ /\ Len(Durable) = Len(Pre) + frame.count
              /\ SubSeq(Durable, 1, Len(Pre)) = Pre
              /\ frame.at = "ret"
        /\ pc = "failed" => Durable = Pre
        /\ frame.at = "ret" => Len(Durable) = Len(Pre) + frame.count

C2_Witness ==
    /\ caller = "unit"
    /\ pc = "failed"
    /\ frame.op = "batch_insert"
    /\ frame.at = "loop"
    /\ frame.i >= 2
    /\ Len(Seen) = Len(Pre) + frame.i
    /\ Durable = Pre

\* C3: benchmark_single_inserts(conn, M) after a batch insert of N rows
\* leaves N + M rows, the M new ones with names "SingleUser<i>" and ages
\* 25 + (i mod 40), each with the next free id; every row is committed by
\* itself, so that once the k-th iteration has completed exactly k of the
\* call's rows are durable, whatever happens later.
C3_SingleInserts ==
    (caller = "unit" /\ frame.op = "single_inserts") =>
        /\ Len(Durable) = Len(Pre) + frame.i
        /\ SubSeq(Durable, 1, Len(Pre)) = Pre
        /\ \A i \in 0..(frame.i - 1) :
              Durable[Len(Pre) + i + 1] =
                  [id |-> (IF Pre = <<>> THEN 0 ELSE Pre[Len(Pre)].id) + i + 1,
                   name |-> "SingleUser" \o ToString(i),
                   email |-> "single" \o ToString(i) \o "@example.com",
                   age |-> 25 + (i % 40)]
        /\ frame.at = "ret" => (frame.i = frame.count /\ Seen = Durable)
        /\ (stepNo = 2 /\ script[1].op = "batch_insert" /\ snaps[1] = <<>>
              /\ frame.at = "ret")
             => Len(Seen) = script[1].count + script[2].count

C3_Witness ==
    /\ caller = "unit"
    /\ stepNo = 2
    /\ script[1].op = "batch_insert"
    /\ script[1].count >= 1
    /\ pc = "failed"
    /\ frame.op = "single_inserts"
    /\ frame.at = "commit"
    /\ frame.i = 2
    /\ Len(Durable) = Len(Pre) + 2
    /\ Len(Seen) = Len(Pre) + 3

\* C4: benchmark_batch_delete(conn, count) removes exactly the rows whose
\* id is at most count and leaves every other row as it was; on a table of
\* ids 1..total it leaves max(0, total - count) rows.
C4_BatchDelete ==
    Returned("batch_delete") =>
        /\ Durable = Seen
        /\ Rows(Seen) = { r \in Rows(Pre) : r.id > frame.count }
        /\ \A p, q \in 1..Len(Seen) : p < q => Seen[p].id < Seen[q].id
        /\ (\A p \in 1..Len(Pre) : Pre[p].id = p)
             => Len(Seen) = Max(0, Len(Pre) - frame.count)

C4_Witness ==
    /\ Returned("batch_delete")
    /\ Len(Pre) = MaxId
    /\ \A p \in 1..Len(Pre) : Pre[p].id = p
    /\ frame.count = 2
    /\ Len(Seen) = MaxId - 2

\* C5: benchmark_batch_update(conn, count) gives the row of id i+1, for
\* every i below count, the age 30 + (i mod 30); it changes no other row and
\* no name, email or id; run twice with the same count, the second run
\* leaves the table as the first one left it.
C5_BatchUpdate ==
    Returned("batch_update") =>
        /\ Durable = Seen
        /\ Len(Seen) = Len(Pre)
        /\ \A p \in 1..Len(Seen) :
              /\ Seen[p].id = Pre[p].id
              /\ Seen[p].name = Pre[p].name
              /\ Seen[p].email = Pre[p].email
              /\ Seen[p].age = IF Seen[p].id <= frame.count
                               THEN 30 + ((Seen[p].id - 1) % 30)
                               ELSE Pre[p].age
        /\ stepNo = 2 => Seen = Pre

C5_Witness ==
    /\ Returned("batch_update")
    /\ stepNo = 2
    /\ frame.count = 2
    /\ Len(Seen) = MaxId
    /\ Seen = Users(snaps[2])
    /\ Seen # Users(snaps[1])

\* C8: in every iteration of benchmark_custom_query the listing query is
\* executed exactly once; if it returns at least one row, the detail, the
\* relationships and the similar query are then executed once each, in that
\* order, all three with one dvd_id taken from the rows just listed; if it
\* returns no row, none of the three is executed and total_rows2,
\* total_rows3 and total_rows4 are as they were before the iteration.
C8_CustomQueryIteration ==
    (caller = "unit" /\ frame.op = "custom_query") =>
        LET s == qlog.stmts
            order == <<"index", "detail", "relationships", "similar">>
            listed == { cq.rows1[k].dvd_id : k \in 1..Len(cq.rows1) }
        IN  /\ Len(s) <= 4
            /\ \A j \in 1..Len(s) : s[j].q = order[j]
            /\ \A j \in 2..Len(s) :
                  s[j].dvd_id \in listed /\ s[j].dvd_id = s[2].dvd_id
            /\ (frame.at = "for" /\ frame.i > 0) =>
                  /\ Len(s) = IF Len(cq.rows1) > 0 THEN 4 ELSE 1
                  /\ cq.total_rows1 = qlog.before[1] + Len(cq.rows1)
                  /\ Len(cq.rows1) = 0 =>
                        /\ cq.total_rows2 = qlog.before[2]
                        /\ cq.total_rows3 = qlog.before[3]
                        /\ cq.total_rows4 = qlog.before[4]

C8_Witness ==
    /\ caller = "unit"
    /\ frame.op = "custom_query"
    /\ frame.at = "for"
    /\ frame.i = 2
    /\ cq.rows1 = <<>>
    /\ Len(qlog.stmts) = 1
    /\ cq.total_rows2 > 0
    /\ cq.total_rows2 = qlog.before[2]

\* C10: benchmark_custom_query with iterations = 0 executes no query,
\* closes its connection, and then fails with a division by zero at the
\* first average, printing nothing and returning no duration; with
\* iterations >= 1 it returns after printing the four averages
\* floor(total / iterations), of which the listing's is at most 100 and the
\* similar query's at most 6.  Every listing is asked with limit 100 and an
\* offset among 0, 100, ..., 4900.
C10_CustomQueryReport ==
    (caller = "unit" /\ frame.op = "custom_query") =>
        /\ \A j \in 1..Len(qlog.stmts) :
              qlog.stmts[j].q = "index" =>
                  /\ qlog.stmts[j].limit = 100
                  /\ qlog.stmts[j].offset \in { 100 * k : k \in 0..49 }
        /\ frame.count = 0 =>
              /\ frame.at \in {"connect", "for", "close", "report"}
              /\ Totals(cq) = <<0, 0, 0, 0>>
              /\ qlog.stmts = <<>>
              /\ out = <<>>
              /\ frame.at = "report" =>
                    /\ roConn = "closed"
                    /\ pc = "wait" => (~ENABLED CQReport /\ ENABLED Raise)
        /\ frame.at = "ret" =>
              /\ frame.count >= 1
              /\ roConn = "closed"
              /\ Len(out) = 4
              /\ \A k \in 1..4 :
                    /\ out[k][1] = "avg" /\ out[k][2] = k
                    /\ out[k][3] * frame.count <= Totals(cq)[k]
                    /\ Totals(cq)[k] < (out[k][3] + 1) * frame.count
              /\ out[1][3] <= 100
              /\ out[4][3] <= 6

C10_Witness ==
    /\ caller = "unit"
    /\ frame.op = "custom_query"
    /\ frame.count = 0
    /\ frame.at = "report"
    /\ pc = "failed"
    /\ exc = "error"
    /\ roConn = "closed"
    /\ out = <<>>

\* The operations of a run of main, in the order of its text.
RunOrder(custom_queries_only) ==
    IF custom_queries_only
    THEN << "custom_query" >>
    ELSE << "remove", "connect", "setup", "batch_insert", "single_inserts",
            "simple_select", "complex_select", "batch_update", "batch_delete",
            "close", "custom_query" >>

Printed(kind) == SelectSeq(out, LAMBDA line : line[1] = kind)

\* C6 (as the specification states it): in every terminal state of a run,
\* the runs in which a step raises an error included, no connection is open
\* and no transaction is open.
C6_ReleasedOnEveryExit ==
    pc \in {"done", "failed"} =>
        /\ conn # "open"
        /\ roConn # "open"
        /\ ~inTxn

\* C7 (as the specification states it): a run that failed has reported no
\* partial result: neither a step's result nor the results block was printed.
C7_NoPartialResult ==
    pc = "failed" => (Printed("time") = <<>> /\ Printed("results") = <<>>)

\* C7 (amended): the run is fail-fast: an error raised by any step is not
\* swallowed and ends the run in a failure state, in which nothing more is
\* executed (no later step, no retry); the steps executed are an initial
\* part of the fixed order; the results block is never printed; the results
\* printed are exactly those of the steps that completed before the failing
\* one, printed as each of them completed.
C7_FailFast ==
    /\ exc = "error" => pc = "failed"
    /\ pc = "failed" =>
          /\ exc = "error"
          /\ ~ENABLED NextMain
          /\ steps = SubSeq(RunOrder(argv), 1, Len(steps))
          /\ Printed("results") = <<>>
          /\ Printed("time") = [j \in 1..(stepNo - 1) |-> <<"time", script[j].op>>]

C7_Witness ==
    /\ caller = "main"
    /\ ~argv
    /\ pc = "failed"
    /\ frame.op = "custom_query"
    /\ stepNo = 7
    /\ Len(Printed("time")) = 6
    /\ Printed("results") = <<>>

\* C9: a full run, started with or without an old benchmark.db, executes
\* its steps in the fixed order remove old file, schema setup, batch insert
\* 10,000, single inserts 1,000, simple select, complex select, batch update
\* 5,000, batch delete 5,000; the table holds 10,000 rows after the batch
\* insert and 11,000 from the end of the single inserts to the delete, the
\* selects and the update leaving the count as it is; the simple select
\* reports a count in 0..11,000 and the complex select at most 10 groups;
\* after the delete the table holds exactly the 6,000 rows of ids
\* 5001..11000.
C9_FullRun ==
    (caller = "main" /\ ~argv) =>
        /\ steps = SubSeq(RunOrder(FALSE), 1, Len(steps))
        /\ <<script[1], script[2], script[5], script[6]>> =
              << Call("batch_insert", 10000), Call("single_inserts", 1000),
                 Call("batch_update", 5000), Call("batch_delete", 5000) >>
        /\ (stepNo = 2 /\ pc = "call") => RowCount(table) = 10000
        /\ \/ stepNo = 2 /\ frame.at = "ret"
           \/ stepNo \in 3..5
           \/ stepNo = 6 /\ frame.at \in {"begin", "delete"}
           => (RowCount(table) = 11000 /\ RowCount(disk) = 11000)
        /\ \A k \in 1..Len(out) :
              /\ out[k][1] = "found" => out[k][2] \in 0..11000
              /\ out[k][1] = "groups" => out[k][2] \in 0..10
        /\ pc = "close" =>
              LET users == Seen
              IN  /\ Durable = users
                  /\ Len(users) = 6000
                  /\ \A p \in 1..6000 : users[p].id = 5000 + p
        /\ Len(steps) >= 10 =>
              /\ RowCount(disk) = 6000
              /\ disk[1].id = 5001
              /\ LastRowid(disk) = 11000

C9_Witness ==
    /\ caller = "main"
    /\ ~argv
    /\ pc = "close"
    /\ Printed("found") # <<>>
    /\ Printed("groups") # <<>>
    /\ RowCount(disk) = 6000
    /\ disk[1].id = 5001
    /\ LastRowid(disk) = 11000

====
